---- MODULE Spec2Model ----
(***************************************************************************)
(* A model of fs.c, the byte-level file API of BFS: fsSeek, fsRead and     *)
(* fsWrite over one open file.  The collaborators of bfs.h / bio.h         *)
(* (bfsTell, bfsGetSize, bfsFbnToDbn, bfsAllocBlock, bfsExtend, bioRead,   *)
(* bioWrite ...) are modelled from their interface.  Every loop iteration  *)
(* of fs.c is one step; pc holds the position inside the running call.     *)
(***************************************************************************)
EXTENDS Integers, Sequences, FiniteSets, TLC

\* ------------------------------------------------------------------ bounds
SmallBlock == 3       \* reduced block size used by Spec
NumDbn == 2           \* data blocks on the disk
MaxNumb == 2          \* longest read / write request of Spec
MaxWrites == 2        \* fsWrite calls followed in one run of Spec
OffScript == 2        \* calls followed after a run of Spec512 leaves the scenario

\* ------------------------------------------------------- program constants
BYTESPERBLOCK == 512
MaxI32 == 2147483647
MinI32 == (-MaxI32) - 1
ENODBN == -1

VARIABLES
    bpb,          \* the block size in effect (BYTESPERBLOCK, or SmallBlock)
    curs,         \* g_oft[ofte].curs
    fsize,        \* the inode's size (bfsGetSize / bfsSetSize)
    map,          \* the inode's block map: fbn -> dbn
    disk,         \* dbn -> block contents
    pc,           \* "idle", "read_loop", "gap_loop", "write_loop", "returned",
                  \* "fatal", "undefined"
    op,           \* the running (or last) call
    err,          \* the code FATAL was called with
    ret,          \* the value the last call returned
    numb, cursor, size,                     \* locals of fsRead / fsWrite
    bytesToRead, bytesRead, bytesWritten,
    fbn, offset, gapStart,
    buf,          \* fsWrite: the source buffer; fsRead: the bytes copied out
    whence, seekOffset,                     \* arguments of fsSeek
    log,          \* collaborator calls made by the running (or last) call
    changed,      \* <<fbn, i>>: bytes of bound blocks the running (or last) call changed
    written,      \* positions covered by the range of some fsWrite call
    rt,           \* progress of a write / seek back / read round trip
    wbuf,         \* the buffer of the last fsWrite call
    script,       \* progress along the documented scenario, -1 when left
    nwrites       \* fsWrite calls made so far

vars == <<bpb, curs, fsize, map, disk, pc, op, err, ret, numb, cursor, size,
          bytesToRead, bytesRead, bytesWritten, fbn, offset, gapStart, buf,
          whence, seekOffset, log, changed, written, rt, wbuf, script, nwrites>>

\* ------------------------------------------------------------ i32 helpers
\* a + b does not fit an i32
Overflows(a, b) ==
    \/ a > 0 /\ b > 0 /\ b > MaxI32 - a
    \/ a < 0 /\ b < 0 /\ b < MinI32 - a

\* a + b in two's complement (no intermediate leaves the i32 range)
Add32(a, b) ==
    IF a > 0 /\ b > 0 /\ b > MaxI32 - a THEN (a + MinI32) + (b + MinI32)
    ELSE IF a < 0 /\ b < 0 /\ b < MinI32 - a THEN (a - MinI32) + (b - MinI32)
    ELSE a + b

\* C's / and % (truncation towards zero), b > 0
CDiv(a, b) == IF a % b = 0 \/ a >= 0 THEN a \div b ELSE (a \div b) + 1
CRem(a, b) == IF a % b = 0 \/ a >= 0 THEN a % b ELSE (a % b) - b

Min(a, b) == IF a < b THEN a ELSE b
Max(a, b) == IF a > b THEN a ELSE b

\* ------------------------------------------------------------ collaborators
ZeroBlock == [i \in 0..(bpb - 1) |-> 0]

bfsFbnToDbn(f) == IF f \in DOMAIN map THEN map[f] ELSE ENODBN

FreeDbns(m) == (1..NumDbn) \ {m[f] : f \in DOMAIN m}

\* bfsAllocBlock binds the first free block to fbn f
AllocDbn(m) == CHOOSE d \in FreeDbns(m) : \A e \in FreeDbns(m) : d <= e
Bind(m, f, d) == [g \in DOMAIN m \cup {f} |-> IF g = f THEN d ELSE m[g]]

\* the byte of the file at position p >= 0, as a whole-file read would see it
FileByte(p) ==
    IF (p \div bpb) \in DOMAIN map THEN disk[map[p \div bpb]][p % bpb] ELSE 0

\* ------------------------------------------------------------------ inputs
Real == bpb = BYTESPERBLOCK          \* the run uses the real block size

Digits == <<48, 49, 50, 51, 52, 53, 54, 55, 56, 57>>      \* "0123456789"
ABCDE == <<65, 66, 67, 68, 69>>                          \* "ABCDE"

\* the documented scenario, call by call
Scenario ==
    << [op |-> "fsWrite", n |-> 10,   b |-> Digits, w |-> "-"],
       [op |-> "fsSeek",  n |-> 0,    b |-> <<>>,   w |-> "SEEK_SET"],
       [op |-> "fsRead",  n |-> 10,   b |-> <<>>,   w |-> "-"],
       [op |-> "fsSeek",  n |-> 1000, b |-> <<>>,   w |-> "SEEK_SET"],
       [op |-> "fsWrite", n |-> 5,    b |-> ABCDE,  w |-> "-"],
       [op |-> "fsSeek",  n |-> 10,   b |-> <<>>,   w |-> "SEEK_SET"],
       [op |-> "fsRead",  n |-> 990,  b |-> <<>>,   w |-> "-"],
       [op |-> "fsRead",  n |-> 5,    b |-> <<>>,   w |-> "-"] >>

MaxPos == bpb * NumDbn               \* seek targets inside the disk's capacity
MaxReq == IF Real THEN 1000 ELSE MaxNumb
MaxCalls == IF Real THEN 3 ELSE MaxWrites

\* the buffer of n bytes given to the next fsWrite call: no byte is zero, and
\* no byte value occurs twice in a run
Buf(n) == [i \in 1..n |-> i]

ReadNumbs == IF Real THEN {0, 5, 10, 990} ELSE (-1)..MaxNumb
WriteArgs ==
    IF Real THEN {<<10, Digits>>, <<5, ABCDE>>, <<0, <<>> >>}
    ELSE {<<n, Buf(n)>> : n \in 1..MaxNumb} \cup {<<0, <<>> >>, <<-1, <<>> >>}
SeekArgs ==
    IF Real
    THEN ({0, 10, 1000, MaxI32} \X {"SEEK_SET"})
         \cup ({-5, 0} \X {"SEEK_CUR", "SEEK_END", "BAD"})
    ELSE (((-1)..MaxPos \cup {MaxI32}) \X {"SEEK_SET"})
         \cup ({-Len(wbuf), -1, 1, MaxI32} \X {"SEEK_CUR"})
         \cup (((-1)..1 \cup {MaxI32}) \X {"SEEK_END"})
         \cup ({0} \X {"BAD"})

\* the cursors the model follows: around the file, and around both ends of i32
InWindow(c) ==
    \/ c >= 0 /\ c <= MaxPos
    \/ c >= MaxI32 - MaxReq
    \/ c <= MinI32 + MaxReq

\* signed overflow is undefined: the build wraps, or traps (-ftrapv)
OverflowOutcomes(ovf) == IF ovf THEN {"wrap", "trap"} ELSE {"none"}

\* ---------------------------------------------------------------- trackers
\* the next value of script: one step along the scenario, or one more call
\* off it (counted below zero; not counted at the reduced block size)
NextScript(call) ==
    IF script >= 0 /\ script < Len(Scenario) /\ Scenario[script + 1] = call
    THEN script + 1
    ELSE IF ~Real \/ script >= 0 THEN -1 ELSE script - 1

\* at the real block size the run leaves the scenario by at most OffScript calls
Followed(call) == NextScript(call) >= -OffScript

Call(o, n, b, w) == [op |-> o, n |-> n, b |-> b, w |-> w]

\* ------------------------------------------------------------------- state
InitWith(b) ==
    /\ bpb = b
    /\ curs = 0 /\ fsize = 0
    /\ map = [f \in {} |-> 0]
    /\ disk = [d \in 1..NumDbn |-> [i \in 0..(b - 1) |-> 0]]
    /\ pc = "idle" /\ op = "none" /\ err = "none" /\ ret = 0
    /\ numb = 0 /\ cursor = 0 /\ size = 0
    /\ bytesToRead = 0 /\ bytesRead = 0 /\ bytesWritten = 0
    /\ fbn = 0 /\ offset = 0 /\ gapStart = 0
    /\ buf = <<>>
    /\ whence = "-" /\ seekOffset = 0
    /\ log = <<>>
    /\ changed = {}
    /\ written = {}
    /\ rt = 0 /\ wbuf = <<>>
    /\ script = 0
    /\ nwrites = 0

Init == InitWith(SmallBlock)
Init512 == InitWith(BYTESPERBLOCK)

\* what every call does on entry
Enter(o) ==
    /\ pc = "idle"
    /\ op' = o
    /\ changed' = {}

\* FATAL(code): the process is gone
Fatal(code) == pc' = "fatal" /\ err' = code

\* the locals of fsRead and fsWrite do not exist outside their call
ClearLocals ==
    /\ numb' = 0 /\ cursor' = 0 /\ size' = 0
    /\ bytesToRead' = 0 /\ bytesRead' = 0 /\ bytesWritten' = 0
    /\ fbn' = 0 /\ offset' = 0 /\ gapStart' = 0
    /\ buf' = <<>>
store == <<fsize, map, disk>>

\* ------------------------------------------------------------------ fsSeek
\* the cursor fsSeek computes before the addition is truncated to an i32
SeekBase(w) == IF w = "SEEK_SET" THEN 0 ELSE IF w = "SEEK_CUR" THEN curs ELSE fsize

\* fsSeek's argument check (line 152)
SeekRejects(off) == off < 0

fsSeek(off, w) ==
    /\ Enter("fsSeek")
    /\ whence' = w /\ seekOffset' = off
    /\ log' = <<>>
    /\ Followed(Call("fsSeek", off, <<>>, w))
    /\ script' = NextScript(Call("fsSeek", off, <<>>, w))
    /\ ClearLocals
    /\ rt' = IF rt = 1 /\ w = "SEEK_CUR" /\ off = -Len(wbuf) THEN 2 ELSE 0
    /\ wbuf' = IF rt' = 2 THEN wbuf ELSE <<>>
    /\ UNCHANGED <<bpb, store, written, nwrites>>
    /\ ret' = 0
    /\ IF SeekRejects(off)
       THEN Fatal("EBADCURS") /\ UNCHANGED curs
       ELSE IF w \notin {"SEEK_SET", "SEEK_CUR", "SEEK_END"}
       THEN Fatal("EBADWHENCE") /\ UNCHANGED curs
       ELSE \E o \in OverflowOutcomes(Overflows(SeekBase(w), off)) :
              IF o = "trap"
              THEN Fatal("SIGABRT") /\ UNCHANGED curs
              ELSE /\ InWindow(Add32(SeekBase(w), off))
                   /\ curs' = Add32(SeekBase(w), off)
                   /\ pc' = "returned"
                   /\ err' = err

Seek == \E a \in SeekArgs : fsSeek(a[1], a[2])


\* ------------------------------------------------------------------ fsRead
\* line 100: the number of bytes to read, sum being cursor + numb as computed
ClipLen(c, n, s, sum) == IF sum > s THEN s - c ELSE n

\* a slip: a block that reaches past the end of the request gives no bytes
BlockSpan_none(off, done, total) ==
    IF done + (bpb - off) > total THEN 0 ELSE bpb - off

\* lines 121-124 and 254-257: the bytes of the current block that take part
BlockSpan(off, done, total) ==
    IF done + (bpb - off) > total THEN total - done ELSE bpb - off

\* memcpy(buf8 + bytesRead, blockBuf + offset, k)
Slice(block, off, k) == [i \in 1..k |-> block[off + i - 1]]

\* a slip: the block is never fetched from the block store
ReadBlockBuf_unread(dbn) == ZeroBlock

\* a slip: a request of no bytes is let through
BadNumb_zero(n) == n < 0

\* lines 93 and 199: if (numb <= 0) FATAL(ENEGNUMB)
BadNumb(n) == n <= 0

\* lines 113-118: the block buffer after the optional bioRead
ReadBlockBuf(dbn) == IF dbn # ENODBN THEN disk[dbn] ELSE ZeroBlock

fsReadCall(n) ==
    /\ Enter("fsRead")
    /\ InWindow(curs)
    /\ numb' = n
    /\ Followed(Call("fsRead", n, <<>>, "-"))
    /\ script' = NextScript(Call("fsRead", n, <<>>, "-"))
    /\ rt' = IF rt = 2 /\ n = Len(wbuf) THEN 3 ELSE 0
    /\ wbuf' = IF rt' = 3 THEN wbuf ELSE <<>>
    /\ buf' = <<>>
    /\ log' = <<>>
    /\ whence' = "-" /\ seekOffset' = 0
    /\ bytesWritten' = 0 /\ gapStart' = 0
    /\ ret' = 0
    /\ UNCHANGED <<bpb, curs, store, written, nwrites>>
    /\ IF BadNumb(n)
       THEN /\ Fatal("ENEGNUMB")
            /\ cursor' = 0 /\ size' = 0
            /\ bytesToRead' = 0 /\ bytesRead' = 0 /\ fbn' = 0 /\ offset' = 0
       ELSE
         /\ cursor' = curs /\ size' = fsize
         /\ \E o \in OverflowOutcomes(Overflows(curs, n)) :
              IF o = "trap"
              THEN /\ Fatal("SIGABRT")
                   /\ bytesToRead' = 0 /\ bytesRead' = 0 /\ fbn' = 0 /\ offset' = 0
              ELSE
                /\ bytesToRead' = ClipLen(curs, n, fsize, Add32(curs, n))
                /\ err' = err
                /\ IF bytesToRead' <= 0
                   THEN /\ pc' = "returned"
                        /\ bytesRead' = 0 /\ fbn' = 0 /\ offset' = 0
                   ELSE /\ bytesRead' = 0
                        /\ fbn' = CDiv(curs, bpb)
                        /\ offset' = CRem(curs, bpb)
                        /\ pc' = "read_loop"

Read == \E n \in ReadNumbs : fsReadCall(n)

loopFrame == <<bpb, op, numb, cursor, size, whence, seekOffset,
               written, rt, wbuf, script, nwrites>>

\* one iteration of the loop of lines 111-132
fsReadStep ==
    /\ pc = "read_loop" /\ bytesRead < bytesToRead
    /\ UNCHANGED <<loopFrame, curs, store, ret, bytesToRead, bytesWritten, gapStart,
                   changed>>
    /\ IF fbn < 0 \/ offset < 0
       THEN \* a block number or a buffer index below zero: out of bounds
            /\ pc' = "undefined"
            /\ UNCHANGED <<err, bytesRead, fbn, offset, buf, log>>
       ELSE LET dbn == bfsFbnToDbn(fbn)
                blockBuf == ReadBlockBuf(dbn)
                k == BlockSpan(offset, bytesRead, bytesToRead)
            IN /\ log' = IF dbn # ENODBN THEN Append(log, <<"bioRead", dbn>>) ELSE log
               /\ buf' = buf \o Slice(blockBuf, offset, k)
               /\ bytesRead' = bytesRead + k
               /\ offset' = 0
               /\ fbn' = fbn + 1
               /\ UNCHANGED <<pc, err>>

\* lines 134-137: bfsSetCursor(inum, cursor + bytesRead); return bytesRead
fsReadReturn ==
    /\ pc = "read_loop" /\ bytesRead >= bytesToRead
    /\ UNCHANGED <<loopFrame, store, bytesToRead, bytesRead, bytesWritten,
                   gapStart, fbn, offset, buf, changed>>
    /\ \E o \in OverflowOutcomes(Overflows(cursor, bytesRead)) :
         IF o = "trap"
         THEN Fatal("SIGABRT") /\ UNCHANGED <<curs, ret, log>>
         ELSE /\ curs' = Add32(cursor, bytesRead)
              /\ log' = Append(log, <<"bfsSetCursor", curs'>>)
              /\ ret' = bytesRead
              /\ pc' = "returned"
              /\ err' = err

\* ----------------------------------------------------------------- fsWrite
\* bfsExtend(inum, newFbn): a no-op when blocks are bound lazily, or every
\* unbound block up to newFbn bound at once
RECURSIVE ExtendMap(_, _, _)
ExtendMap(m, f, last) ==
    IF f > last THEN m
    ELSE IF f \in DOMAIN m THEN ExtendMap(m, f + 1, last)
    ELSE ExtendMap(Bind(m, f, AllocDbn(m)), f + 1, last)

CanExtend(newFbn) ==
    /\ newFbn < NumDbn
    /\ Cardinality((0..newFbn) \ DOMAIN map) <= Cardinality(FreeDbns(map))

\* line 248: the block is modified only in part
PartialBlock(off, n, done) == off # 0 \/ n - done < bpb

\* a slip: the block buffer of the write loop is not cleared
WriteBlockBuf_uncleared(dbn, rmw) ==
    IF rmw THEN disk[dbn] ELSE [i \in 0..(bpb - 1) |-> 255]

\* lines 240-251: the block buffer before the memcpy: zero, or the block read
WriteBlockBuf(dbn, rmw) == IF rmw THEN disk[dbn] ELSE ZeroBlock

\* memcpy(blockBuf + offset, buf8 + bytesWritten, k)
CopyIn(block, off, src, done, k) ==
    [i \in 0..(bpb - 1) |->
        IF i >= off /\ i < off + k THEN src[done + (i - off) + 1] ELSE block[i]]

\* the positions an fsWrite of n bytes at c covers, as far as an i32 reaches
Range(c, n) == {c + i : i \in {j \in 0..(n - 1) : c <= 0 \/ j <= MaxI32 - c}}

NoWriteLoop == bytesWritten' = 0 /\ fbn' = 0 /\ offset' = 0 /\ gapStart' = 0

\* a slip: the gap loop is placed after the size update
StartWriteLoop_gapAfterSize ==
    /\ bytesWritten' = 0
    /\ fbn' = CDiv(curs, bpb)
    /\ offset' = CRem(curs, bpb)
    /\ pc' = "gap_loop"

\* lines 231-236
StartWriteLoop ==
    /\ bytesWritten' = 0
    /\ fbn' = CDiv(curs, bpb)
    /\ offset' = CRem(curs, bpb)
    /\ pc' = "write_loop"

fsWriteCall(n, b) ==
    /\ Enter("fsWrite")
    /\ InWindow(curs)
    /\ nwrites < MaxCalls
    /\ nwrites' = nwrites + 1
    /\ numb' = n /\ buf' = b /\ wbuf' = b
    /\ Followed(Call("fsWrite", n, b, "-"))
    /\ script' = NextScript(Call("fsWrite", n, b, "-"))
    /\ rt' = IF n > 0 THEN 1 ELSE 0
    /\ whence' = "-" /\ seekOffset' = 0
    /\ ret' = 0 /\ bytesToRead' = 0 /\ bytesRead' = 0
    /\ UNCHANGED <<bpb, curs, disk>>
    /\ IF BadNumb(n)
       THEN /\ Fatal("ENEGNUMB")
            /\ log' = <<>>
            /\ cursor' = 0 /\ size' = 0
            /\ NoWriteLoop
            /\ UNCHANGED <<fsize, map, written>>
       ELSE
         /\ cursor' = curs /\ size' = fsize
         /\ written' = written \cup Range(curs, n)
         /\ \E o \in OverflowOutcomes(Overflows(curs, n)) :
              IF o = "trap"
              THEN /\ Fatal("SIGABRT")
                   /\ log' = <<>>
                   /\ NoWriteLoop
                   /\ UNCHANGED <<fsize, map>>
              ELSE LET sum == Add32(curs, n)
                       newFbn == CDiv(sum - 1, bpb)
                   IN
                IF sum > fsize
                THEN \E eager \in BOOLEAN :
                       /\ IF eager /\ ~CanExtend(newFbn)
                          THEN /\ Fatal("EDISKFULL")
                               /\ log' = <<<<"bfsExtend", newFbn>>>>
                               /\ NoWriteLoop
                               /\ UNCHANGED <<fsize, map>>
                          ELSE /\ map' = IF eager THEN ExtendMap(map, 0, newFbn) ELSE map
                               /\ err' = err
                               /\ IF curs > fsize
                                  THEN /\ gapStart' = fsize
                                       /\ log' = <<<<"bfsExtend", newFbn>>>>
                                       /\ pc' = "gap_loop"
                                       /\ bytesWritten' = 0 /\ fbn' = 0 /\ offset' = 0
                                       /\ fsize' = fsize
                                  ELSE /\ fsize' = sum
                                       /\ log' = << <<"bfsExtend", newFbn>>,
                                                    <<"bfsSetSize", sum>> >>
                                       /\ StartWriteLoop
                                       /\ gapStart' = 0
                ELSE /\ StartWriteLoop
                     /\ log' = <<>>
                     /\ gapStart' = 0
                     /\ UNCHANGED <<err, fsize, map>>

Write == \E a \in WriteArgs : fsWriteCall(a[1], a[2])

\* a slip: a block is requested without looking at what the lookup found
NeedsAlloc_always(found) == TRUE

\* lines 219 and 244: if (dbn == ENODBN) dbn = bfsAllocBlock(inum, fbn)
NeedsAlloc(found) == found = ENODBN

\* the bytes of bound blocks in which the disk d differs from the present one
Diff(d) ==
    {<<f, i>> \in (DOMAIN map) \X (0..(bpb - 1)) : d[map[f]][i] # disk[map[f]][i]}

\* one iteration of the gap loop of lines 214-226
fsWriteGapStep ==
    /\ pc = "gap_loop" /\ gapStart < cursor
    /\ UNCHANGED <<loopFrame, curs, fsize, ret, bytesToRead, bytesRead,
                   bytesWritten, offset, buf>>
    /\ LET f == CDiv(gapStart, bpb)
           found == bfsFbnToDbn(f)
       IN /\ fbn' = f
          /\ IF NeedsAlloc(found) /\ FreeDbns(map) = {}
             THEN \* bfsAllocBlock has no block to give
                  /\ Fatal("EDISKFULL")
                  /\ log' = Append(log, <<"bfsAllocBlock", f>>)
                  /\ UNCHANGED <<map, disk, gapStart, changed>>
             ELSE LET dbn == IF NeedsAlloc(found) THEN AllocDbn(map) ELSE found
                  IN /\ map' = IF NeedsAlloc(found) THEN Bind(map, f, dbn) ELSE map
                     /\ disk' = [disk EXCEPT ![dbn] = ZeroBlock]
                     /\ log' = (IF NeedsAlloc(found)
                                THEN Append(log, <<"bfsAllocBlock", f>>) ELSE log)
                               \o << <<"bioWrite", dbn>> >>
                     /\ changed' = changed \cup Diff(disk')
                     /\ gapStart' = Add32(gapStart, bpb)
                     /\ UNCHANGED <<pc, err>>

\* line 228 and lines 231-236, once the gap loop is over
fsWriteGapDone ==
    /\ pc = "gap_loop" /\ gapStart >= cursor
    /\ UNCHANGED <<loopFrame, curs, map, disk, ret, err, bytesToRead, bytesRead,
                   gapStart, buf, changed>>
    /\ fsize' = Add32(cursor, numb)
    /\ log' = Append(log, <<"bfsSetSize", fsize'>>)
    /\ StartWriteLoop

\* one iteration of the loop of lines 239-268
fsWriteStep ==
    /\ pc = "write_loop" /\ bytesWritten < numb
    /\ UNCHANGED <<loopFrame, curs, fsize, ret, bytesToRead, bytesRead, gapStart, buf>>
    /\ IF fbn < 0 \/ offset < 0
       THEN \* a block number or a buffer index below zero: out of bounds
            /\ pc' = "undefined"
            /\ UNCHANGED <<err, map, disk, log, bytesWritten, fbn, offset, changed>>
       ELSE LET found == bfsFbnToDbn(fbn) IN
            IF NeedsAlloc(found) /\ FreeDbns(map) = {}
            THEN /\ Fatal("EDISKFULL")
                 /\ log' = Append(log, <<"bfsAllocBlock", fbn>>)
                 /\ UNCHANGED <<map, disk, bytesWritten, fbn, offset, changed>>
            ELSE LET dbn == IF NeedsAlloc(found) THEN AllocDbn(map) ELSE found
                     rmw == ~NeedsAlloc(found) /\ PartialBlock(offset, numb, bytesWritten)
                     blockBuf == WriteBlockBuf(dbn, rmw)
                     k == BlockSpan(offset, bytesWritten, numb)
                 IN /\ map' = IF NeedsAlloc(found) THEN Bind(map, fbn, dbn) ELSE map
                    /\ disk' = [disk EXCEPT
                                  ![dbn] = CopyIn(blockBuf, offset, buf, bytesWritten, k)]
                    /\ log' = (IF NeedsAlloc(found)
                               THEN Append(log, <<"bfsAllocBlock", fbn>>)
                               ELSE IF rmw THEN Append(log, <<"bioRead", dbn>>)
                               ELSE log)
                              \o << <<"bioWrite", dbn>> >>
                    /\ changed' = changed \cup Diff(disk')
                    /\ bytesWritten' = bytesWritten + k
                    /\ offset' = 0
                    /\ fbn' = fbn + 1
                    /\ UNCHANGED <<pc, err>>

\* lines 270-273: bfsSetCursor(inum, cursor + bytesWritten); return 0
fsWriteReturn ==
    /\ pc = "write_loop" /\ bytesWritten >= numb
    /\ UNCHANGED <<loopFrame, store, bytesToRead, bytesRead, bytesWritten,
                   gapStart, fbn, offset, buf, changed>>
    /\ \E o \in OverflowOutcomes(Overflows(cursor, bytesWritten)) :
         IF o = "trap"
         THEN Fatal("SIGABRT") /\ UNCHANGED <<curs, ret, log>>
         ELSE /\ curs' = Add32(cursor, bytesWritten)
              /\ log' = Append(log, <<"bfsSetCursor", curs'>>)
              /\ ret' = 0
              /\ pc' = "returned"
              /\ err' = err

\* the caller has the result and goes on: nothing of the call is left but
\* its effect on the cursor and the file
Resume ==
    /\ pc = "returned"
    /\ pc' = "idle"
    /\ op' = "none" /\ ret' = 0
    /\ ClearLocals
    /\ whence' = "-" /\ seekOffset' = 0
    /\ log' = <<>> /\ changed' = {}
    /\ UNCHANGED <<bpb, curs, store, err, written, rt, wbuf, script, nwrites>>

\* ----------------------------------------------------------- specification
Next ==
    \/ Resume
    \/ Seek
    \/ Read
    \/ fsReadStep
    \/ fsReadReturn
    \/ Write
    \/ fsWriteGapStep
    \/ fsWriteGapDone
    \/ fsWriteStep
    \/ fsWriteReturn

Spec == Init /\ [][Next]_vars
Spec512 == Init512 /\ [][Next]_vars

\* the statements of a call that is under way: the program is sequential, so
\* a call that has been entered goes on until it returns or aborts
Running ==
    \/ fsReadStep \/ fsReadReturn
    \/ fsWriteGapStep \/ fsWriteGapDone
    \/ fsWriteStep \/ fsWriteReturn

SpecRun == Init /\ [][Next]_vars /\ WF_vars(Running)

\* every variable keeps to its type
TypeOK ==
    /\ pc \in {"idle", "read_loop", "gap_loop", "write_loop", "returned",
              "fatal", "undefined"}
    /\ fsize >= 0
    /\ \A f \in DOMAIN map : map[f] \in 1..NumDbn

\* ================================================================== claims
Done(f) == pc = "returned" /\ op = f
Between == pc \in {"idle", "returned"}

\* max(0, min(n, s - c)) for i32 values, n > 0, s >= 0
Clamp(n, c, s) ==
    IF c >= s THEN 0
    ELSE IF c < 0 THEN (IF s <= n + c THEN s - c ELSE n)
    ELSE Min(n, s - c)

\* <<f, i>> lies in the range [cursor, cursor + numb) of the last fsWrite
InWriteRange(f, i) ==
    LET d == (f - CDiv(cursor, bpb)) * bpb + (i - CRem(cursor, bpb))
    IN d >= 0 /\ d < numb

\* the last fsWrite covers block f, but not all of it
PartCovered(f) ==
    /\ \E i \in 0..(bpb - 1) : InWriteRange(f, i)
    /\ \E i \in 0..(bpb - 1) : ~InWriteRange(f, i)

\* the blocks a kind of transfer named in the log, in order
Transfers(kind) == SelectSeq(log, LAMBDA e : e[1] = kind)
NoRepeat(q) == \A i, j \in 1..Len(q) : i # j => q[i] # q[j]

\* C1: after fsWrite(h, N, buf), fsSeek(h, -N, SEEK_CUR) and fsRead(h, N, out)
\* complete without failure, the read returns N and out equals buf.
C1_RoundTrip ==
    /\ rt >= 2 => pc \notin {"fatal", "undefined"}
    /\ rt = 3 /\ pc = "returned" => ret = Len(wbuf) /\ buf = wbuf

\* C2: fsRead returns exactly max(0, min(N, S - C)), leaves the cursor at C plus
\* that count, never returns more than N and delivers no byte at or past S.
C2_ReadClamp ==
    Done("fsRead") =>
        /\ ret = Clamp(numb, cursor, size)
        /\ ret <= numb
        /\ Len(buf) = ret
        /\ curs = cursor + ret
        /\ ret > 0 => cursor + ret <= size

C4_PartialBlockKept ==
    Done("fsWrite") =>
        \A e \in changed : PartCovered(e[1]) => InWriteRange(e[1], e[2])

\* C5: a successful fsWrite of N bytes at C leaves the cursor at C + N and the
\* size at max(old size, C + N); fsRead leaves the size alone; the size never
\* decreases.
C5_WriteEffect ==
    /\ Done("fsWrite") =>
          /\ ~Overflows(cursor, numb)
          /\ curs = cursor + numb
          /\ fsize = Max(size, cursor + numb)
    /\ Done("fsRead") => fsize = size
    /\ op \in {"fsRead", "fsWrite"} /\ numb > 0 => fsize >= size

\* C6: fsSeek with a valid mode succeeds with cursor = base + offset whenever
\* that is not negative (base is 0, the cursor or the size) and fails fatally
\* whenever it is negative; an unknown mode fails fatally.  (Offsets whose sum
\* with the base leaves the i32 range are left to C8.)
C6_SeekContract ==
    [][(pc = "idle" /\ op' = "fsSeek") =>
          LET w == whence'
              off == seekOffset'
              base == IF w = "SEEK_SET" THEN 0
                      ELSE IF w = "SEEK_CUR" THEN curs ELSE fsize
          IN IF w \notin {"SEEK_SET", "SEEK_CUR", "SEEK_END"} THEN pc' = "fatal"
             ELSE IF Overflows(base, off) THEN TRUE
             ELSE IF base + off >= 0 THEN pc' = "returned" /\ curs' = base + off
             ELSE pc' = "fatal"]_vars

\* C7: within one call no block is read from the block store more than once
\* and no block is written to it more than once.
C7_OneTransferPerBlock ==
    /\ NoRepeat(Transfers("bioRead"))
    /\ NoRepeat(Transfers("bioWrite"))

\* C8: between calls the handle's cursor is never negative.
C8_CursorNonNegative == Between => curs >= 0

\* C9: fsSeek transfers no block, binds no block and leaves size and contents
\* alone; its cursor is not clamped to the size; the fsRead that follows at a
\* cursor at or past the size returns 0.
C9_SeekFrame ==
    /\ op = "fsSeek" => log = <<>> /\ changed = {}
    /\ Done("fsSeek") /\ whence = "SEEK_SET" => curs = seekOffset
    /\ Done("fsRead") /\ cursor >= size => ret = 0 /\ log = <<>>

\* C10: the documented scenario, step by step, at block size 512.
C10_Scenario ==
    /\ script >= 1 => pc \notin {"fatal", "undefined"}
    /\ script = 1 /\ pc = "returned" => fsize = 10 /\ curs = 10
    /\ script = 3 /\ pc = "returned" => ret = 10 /\ buf = Digits
    /\ script = 5 /\ pc = "returned" => fsize = 1005
    /\ script = 7 /\ pc = "returned" =>
          /\ Len(buf) >= 980
          /\ \A i \in 1..980 : buf[i] = 0
          /\ curs = 1000
    /\ script = 8 /\ pc = "returned" => ret = 5 /\ buf = ABCDE

\* C10's case: the last read of the scenario has returned
C10_Witness == bpb = BYTESPERBLOCK /\ script = 8 /\ pc = "returned"

\* C11: fsRead and fsWrite called with N <= 0 fail fatally before any other
\* effect: no transfer, no allocation or extension request, and cursor, size,
\* block map and contents are as they were.
C11_BadNumbFatal ==
    [][(pc = "idle" /\ op' \in {"fsRead", "fsWrite"} /\ numb' <= 0) =>
          /\ pc' = "fatal" /\ err' = "ENEGNUMB"
          /\ log' = <<>> /\ changed' = {}
          /\ UNCHANGED <<curs, fsize, map, disk>>]_vars

\* C11's case: a call with N <= 0 on a file that has content and a cursor
\* beyond its size, where a write would extend and fill
C11_Witness ==
    /\ pc = "fatal" /\ op \in {"fsRead", "fsWrite"} /\ numb <= 0
    /\ fsize > 0 /\ curs > fsize

\* byte i of block f lies at a position below the size the call found
BelowOldSize(f, i) ==
    f < size \div bpb \/ (f = size \div bpb /\ i < size % bpb)

\* C12: an fsWrite that starts at a cursor beyond the old size leaves every
\* byte at a position below the old size as it was.
C12_GapKeepsOldData ==
    (Done("fsWrite") /\ cursor > size) =>
        \A e \in changed : ~BelowOldSize(e[1], e[2])

\* the file blocks whose disk block the call has written so far
BlocksWritten ==
    {f \in DOMAIN map : \E i \in 1..Len(log) : log[i] = <<"bioWrite", map[f]>>}

\* C13: in a write with cursor > old size, gap-fill resolves or allocates and
\* writes a full zero block to each file block from floor(old size / block
\* size) through floor((cursor - 1) / block size), and to no other.
C13_GapFillBlocks ==
    (pc = "gap_loop" /\ gapStart >= cursor) =>
        /\ \A f \in (size \div bpb)..((cursor - 1) \div bpb) :
              f \in BlocksWritten /\ disk[map[f]] = ZeroBlock
        /\ \A f \in BlocksWritten :
              f >= size \div bpb /\ f <= (cursor - 1) \div bpb

\* the places of the log that hold an operation of a kind
At(kind) == {i \in 1..Len(log) : log[i][1] = kind}

\* the i-th byte of the range of the last fsWrite, as the file holds it
RangeByte(i) ==
    LET q == CRem(cursor, bpb) + (i - 1)
    IN disk[map[CDiv(cursor, bpb) + q \div bpb]][q % bpb]

\* C14: within one fsWrite the extension request comes first, then the
\* gap-fill zero-block writes, then the size update, then the block writes of
\* the requested range, then the cursor update; no gap-fill write follows a
\* write of the requested range, and the bytes the call wrote are in the file
\* when it returns.
C14_WriteOrder ==
    /\ [](op = "fsWrite" =>
          /\ At("bfsExtend") \subseteq {1}
          /\ Cardinality(At("bfsSetSize")) <= 1
          /\ \A i \in At("bfsSetSize") : 1 \in At("bfsExtend")
          /\ pc = "gap_loop" =>
                /\ At("bfsExtend") = {1}
                /\ At("bfsSetSize") \cup At("bfsSetCursor") \cup At("bioRead") = {}
                /\ Cardinality(At("bioWrite")) * bpb = gapStart - size
          /\ pc = "write_loop" => At("bfsSetCursor") = {}
          /\ pc \in {"write_loop", "returned"} =>
                Cardinality({j \in At("bioWrite") :
                                \A i \in At("bfsSetSize") : j > i})
                    = fbn - CDiv(cursor, bpb)
          /\ pc = "returned" =>
                /\ At("bfsSetCursor") = {Len(log)}
                /\ \A i \in 1..numb : RangeByte(i) = buf[i])
    /\ [][pc = "write_loop" => pc' # "gap_loop"]_vars

\* C14's case: a write beyond the old size has returned after gap-fill
\* writes and range writes
C14_Witness ==
    /\ Done("fsWrite") /\ cursor > size
    /\ \E i \in At("bfsSetSize") :
          /\ \E j \in At("bioWrite") : j < i
          /\ \E j \in At("bioWrite") : j > i

\* the file block that holds the i-th byte an fsRead at cursor delivers
ReadFbn(i) == CDiv(cursor, bpb) + (CRem(cursor, bpb) + (i - 1)) \div bpb

\* the bound file blocks among those the bytes 1..n of the read touch, in order
RECURSIVE BoundTouched(_, _)
BoundTouched(f, last) ==
    IF f > last THEN <<>>
    ELSE (IF f \in DOMAIN map THEN << <<"bioRead", map[f]>> >> ELSE <<>>)
         \o BoundTouched(f + 1, last)

\* C15: fsRead writes no block, allocates and extends nothing and leaves the
\* size alone; with the cursor at or past the size it returns 0 with no block
\* store access and the cursor unchanged; otherwise it reads each touched
\* file block that is bound exactly once and no unbound one, whose bytes it
\* delivers as zero.
C15_ReadFrame ==
    /\ op = "fsRead" =>
          /\ At("bioWrite") \cup At("bfsAllocBlock") \cup At("bfsExtend")
                \cup At("bfsSetSize") = {}
          /\ changed = {}
          /\ numb > 0 => fsize = size
    /\ Done("fsRead") /\ cursor >= size =>
          ret = 0 /\ log = <<>> /\ curs = cursor
    /\ Done("fsRead") /\ cursor >= 0 /\ cursor < size =>
          /\ Transfers("bioRead") = BoundTouched(ReadFbn(1), ReadFbn(ret))
          /\ \A i \in 1..Len(buf) :
                ReadFbn(i) \notin DOMAIN map => buf[i] = 0

\* the allocation service has failed in the running fsWrite
AllocFailed == pc = "fatal" /\ op = "fsWrite" /\ err = "EDISKFULL"

\* ... while the gap loop ran: after the extension request, before the size update
FailedInGap ==
    /\ AllocFailed /\ log[Len(log)][1] = "bfsAllocBlock"
    /\ At("bfsExtend") = {1} /\ At("bfsSetSize") = {}

\* ... while the loop over the requested range ran
FailedInRange ==
    AllocFailed /\ log[Len(log)][1] = "bfsAllocBlock" /\ ~FailedInGap

\* C16: when the allocation service fails during fsWrite the call ends in the
\* fatal state with no block write after the failure and the cursor not
\* advanced; a failure in the loop over the requested range finds the size
\* already set to cursor + N, a failure during gap-fill leaves the old size.
C16_AllocFailure ==
    /\ AllocFailed =>
          /\ log # <<>>
          /\ log[Len(log)][1] \in {"bfsAllocBlock", "bfsExtend"}
          /\ curs = cursor
          /\ At("bfsSetCursor") = {}
    /\ FailedInGap => fsize = size
    /\ FailedInRange => ~Overflows(cursor, numb) /\ fsize = cursor + numb

\* C17: fsWrite asks for a block only for a file block its lookup found
\* unbound, in the gap loop and in the write loop; a bound file block is never
\* bound to another disk block, and no two file blocks share a disk block.
C17_AllocOnlyUnbound ==
    /\ [](\A f, g \in DOMAIN map : map[f] = map[g] => f = g)
    /\ [][/\ \A f \in DOMAIN map : f \in DOMAIN map' /\ map'[f] = map[f]
          /\ pc \in {"gap_loop", "write_loop"} =>
                \A i \in (Len(log) + 1)..Len(log') :
                    log'[i][1] = "bfsAllocBlock" => log'[i][2] \notin DOMAIN map]_vars

\* C17's case: one call has written a block it found bound and a block it
\* had to ask for
C17_Witness ==
    /\ Done("fsWrite") /\ At("bfsAllocBlock") # {}
    /\ Cardinality(At("bioWrite")) > Cardinality(At("bfsAllocBlock"))
    /\ Cardinality(DOMAIN map) >= 2

\* the file blocks that len bytes from the cursor of the call lie in
BlocksSpanned(len) == (CRem(cursor, bpb) + (len - 1)) \div bpb + 1

\* C18: every fsRead and fsWrite with N > 0 comes to an end: the read loop and
\* the write loop run once for each file block from floor(cursor / block size)
\* through floor((cursor + len - 1) / block size), len being the clipped
\* length of the read and N of the write, every iteration of a loop moves its
\* counter forward within its limit, and a call under way returns or aborts.
C18_Terminates ==
    /\ [](Done("fsRead") /\ bytesToRead > 0 =>
            fbn - CDiv(cursor, bpb) = BlocksSpanned(bytesToRead))
    /\ [](Done("fsWrite") => fbn - CDiv(cursor, bpb) = BlocksSpanned(numb))
    /\ [][/\ (pc = "read_loop" /\ pc' = "read_loop") =>
                bytesRead' > bytesRead /\ bytesRead' <= bytesToRead /\ fbn' = fbn + 1
          /\ (pc = "write_loop" /\ pc' = "write_loop") =>
                bytesWritten' > bytesWritten /\ bytesWritten' <= numb /\ fbn' = fbn + 1
          /\ (pc = "gap_loop" /\ pc' = "gap_loop") =>
                gapStart' > gapStart /\ gapStart < cursor]_vars
    /\ (pc \in {"read_loop", "gap_loop", "write_loop"})
          ~> (pc \in {"returned", "fatal", "undefined"})

\* C18's case: a read and a write that ran their loop over several blocks
C18_Witness ==
    /\ pc = "returned" /\ op \in {"fsRead", "fsWrite"}
    /\ fbn - CDiv(cursor, bpb) >= 2
    /\ fsize > bpb

====
